---- MODULE Spec2Model ----
(***************************************************************************)
(* git_subscribe: the tracked-repository registry of src/main.rs.          *)
(*                                                                         *)
(* The store file is a byte string (here a sequence of one-character       *)
(* strings), a path is the byte string a PathBuf holds, and a process is   *)
(* one invocation of the command line tool.  The TOML text is produced and *)
(* parsed character by character; the file system (which paths exist,      *)
(* which of them are the same object, which of them open as repositories)  *)
(* is a fixed environment.                                                 *)
(***************************************************************************)
EXTENDS Integers, Sequences, FiniteSets, TLC

(***************************************************************************)
(* Bounds of the model.                                                    *)
(***************************************************************************)
\* command_add is not started once the store holds this many entries
MaxRepos == 2
\* longest registry a store file holds in the initial state
MaxInitLen == 1

NoInode == "NoInode"

(***************************************************************************)
(* Character strings.                                                      *)
(***************************************************************************)
NL == "\n"
SEP == "/"
QUOTE == "\""
BACKSLASH == "\\"
\* a byte that is not part of any UTF-8 text
INVALID_BYTE == "0xFF"

TABLE_ARRAY_HEADER == <<"[", "[", "t", "r", "a", "c", "k", "e", "d", "_", "r", "e", "p", "o", "s", "]", "]">>
EMPTY_ARRAY == <<"t", "r", "a", "c", "k", "e", "d", "_", "r", "e", "p", "o", "s", " ", "=", " ", "[", "]">>
PATH_KEY == <<"p", "a", "t", "h", " ", "=", " ", "\"">>
LAST_FETCH_HEADER == <<"[", "t", "r", "a", "c", "k", "e", "d", "_", "r", "e", "p", "o", "s", ".", "l", "a", "s", "t", "_", "f", "e", "t", "c", "h", "]">>
SECS_KEY == <<"s", "e", "c", "s", "_", "s", "i", "n", "c", "e", "_", "e", "p", "o", "c", "h", " ", "=", " ">>
NANOS_KEY == <<"n", "a", "n", "o", "s", "_", "s", "i", "n", "c", "e", "_", "e", "p", "o", "c", "h", " ", "=", " ">>
DOT_GIT == <<".", "g", "i", "t">>

DigitChars == <<"0", "1", "2", "3", "4", "5", "6", "7", "8", "9">>

(***************************************************************************)
(* The file system the commands run against.                               *)
(*   /r        a repository with a working directory                       *)
(*   /l        a symbolic link to /r                                       *)
(*   /w        a linked worktree of /r (git worktree add /w)               *)
(*   /"q       a repository whose directory name holds a double quote      *)
(*   /0xFF     a repository whose directory name is not UTF-8              *)
(*   /n        a directory that is no repository                           *)
(*   /x        does not exist                                              *)
(***************************************************************************)
P_root == <<"/">>
P_r == <<"/", "r">>
P_r_git == <<"/", "r", "/", ".", "g", "i", "t">>
P_r_gitdir == <<"/", "r", "/", ".", "g", "i", "t", "/">>
P_l == <<"/", "l">>
P_w == <<"/", "w">>
P_w_gitdir == <<"/", "r", "/", ".", "g", "i", "t", "/", "w", "o", "r", "k", "t", "r", "e", "e", "s", "/", "w", "/">>
P_q == <<"/", "\"", "q">>
P_q_gitdir == <<"/", "\"", "q", "/", ".", "g", "i", "t", "/">>
P_u == <<"/", INVALID_BYTE>>
P_u_gitdir == <<"/", INVALID_BYTE, "/", ".", "g", "i", "t", "/">>
P_n == <<"/", "n">>
P_x == <<"/", "x">>
P_rel_r == <<"r">>

(***************************************************************************)
(* std::path: the operations of Path/PathBuf the commands use.             *)
(***************************************************************************)
\* the pieces of s between the occurrences of the character c
SplitOn(s, c) ==
    LET at == {i \in 1..Len(s) : s[i] = c}
        n == Cardinality(at)
        cut(k) == IF k = 0 THEN 0
                  ELSE IF k = n + 1 THEN Len(s) + 1
                  ELSE CHOOSE i \in at : Cardinality({j \in at : j <= i}) = k
    IN  [k \in 1..(n + 1) |-> SubSeq(s, cut(k - 1) + 1, cut(k) - 1)]

\* Path::components without the root: empty names and "." are skipped
Components(p) ==
    SelectSeq(SplitOn(p, SEP), LAMBDA n : n # <<>> /\ n # <<".">>)

IsAbsolute(p) == p # <<>> /\ p[1] = SEP

\* Path::ends_with for a relative child: whole components, compared from the end
ends_with(p, child) ==
    LET a == Components(p)
        b == Components(child)
    IN  /\ Len(b) <= Len(a)
        /\ SubSeq(a, Len(a) - Len(b) + 1, Len(a)) = b

RECURSIVE StripTrailingSep(_)
StripTrailingSep(p) ==
    IF Len(p) > 1 /\ p[Len(p)] = SEP
    THEN StripTrailingSep(SubSeq(p, 1, Len(p) - 1))
    ELSE p

RECURSIVE DropLastName(_)
DropLastName(p) ==
    IF p = <<>> \/ p[Len(p)] = SEP
    THEN p
    ELSE DropLastName(SubSeq(p, 1, Len(p) - 1))

\* PathBuf::pop: truncate to the parent
pop(p) == StripTrailingSep(DropLastName(StripTrailingSep(p)))

\* PathBuf equality compares components and rootedness
PathEq(a, b) == IsAbsolute(a) = IsAbsolute(b) /\ Components(a) = Components(b)

(***************************************************************************)
(* The environment: stat and git2::Repository::open.                       *)
(***************************************************************************)
N_r == <<"r">>
N_l == <<"l">>
N_w == <<"w">>
N_q == <<"\"", "q">>
N_u == <<INVALID_BYTE>>
N_n == <<"n">>
N_worktrees == <<"w", "o", "r", "k", "t", "r", "e", "e", "s">>

\* the objects of the file system, by the components of an absolute path
FileTable ==
    { <<<<>>, "ino_root">>,
      <<<<N_r>>, "ino_r">>,
      <<<<N_r, DOT_GIT>>, "ino_r_git">>,
      <<<<N_l>>, "ino_r">>,
      <<<<N_l, DOT_GIT>>, "ino_r_git">>,
      <<<<N_w>>, "ino_w">>,
      <<<<N_r, DOT_GIT, N_worktrees>>, "ino_r_worktrees">>,
      <<<<N_r, DOT_GIT, N_worktrees, N_w>>, "ino_w_gitdir">>,
      <<<<N_l, DOT_GIT, N_worktrees>>, "ino_r_worktrees">>,
      <<<<N_l, DOT_GIT, N_worktrees, N_w>>, "ino_w_gitdir">>,
      <<<<N_q>>, "ino_q">>,
      <<<<N_q, DOT_GIT>>, "ino_q_git">>,
      <<<<N_u>>, "ino_u">>,
      <<<<N_u, DOT_GIT>>, "ino_u_git">>,
      <<<<N_n>>, "ino_n">> }

\* a relative path is taken from the working directory of the process
Absolute(cwd, p) == IF IsAbsolute(p) THEN p ELSE cwd \o <<SEP>> \o p

\* the object a path names, NoInode when it cannot be stat'ed
Stat(cwd, p) ==
    LET c == Components(Absolute(cwd, p))
    IN  IF \E e \in FileTable : e[1] = c
        THEN (CHOOSE e \in FileTable : e[1] = c)[2]
        ELSE NoInode

\* a mutant of is_same_file: the two paths are compared as text
is_same_file_textual(cwd, a, b) ==
    /\ Stat(cwd, a) # NoInode
    /\ Stat(cwd, b) # NoInode
    /\ a = b

\* same_file::is_same_file(a, b).unwrap_or(false)
is_same_file(cwd, a, b) ==
    /\ Stat(cwd, a) # NoInode
    /\ Stat(cwd, b) # NoInode
    /\ Stat(cwd, a) = Stat(cwd, b)

\* the repositories: the object opened, its git directory (Repository::path,
\* absolute, symbolic links resolved, with a trailing separator) and its
\* working directory (Repository::workdir).  The git directory of a linked
\* worktree is .git/worktrees/<name>/ of the repository it belongs to.
RepoTable ==
    { [ino |-> "ino_r", gitdir |-> P_r_gitdir, workdir |-> P_r],
      [ino |-> "ino_r_git", gitdir |-> P_r_gitdir, workdir |-> P_r],
      [ino |-> "ino_w", gitdir |-> P_w_gitdir, workdir |-> P_w],
      [ino |-> "ino_w_gitdir", gitdir |-> P_w_gitdir, workdir |-> P_w],
      [ino |-> "ino_q", gitdir |-> P_q_gitdir, workdir |-> P_q],
      [ino |-> "ino_q_git", gitdir |-> P_q_gitdir, workdir |-> P_q],
      [ino |-> "ino_u", gitdir |-> P_u_gitdir, workdir |-> P_u],
      [ino |-> "ino_u_git", gitdir |-> P_u_gitdir, workdir |-> P_u] }

\* git2::Repository::open(p): Ok with the repository, or Err
Repository_open(cwd, p) ==
    LET i == Stat(cwd, p)
    IN  IF \E r \in RepoTable : r.ino = i
        THEN [ok |-> TRUE, repo |-> CHOOSE r \in RepoTable : r.ino = i]
        ELSE [ok |-> FALSE]

(***************************************************************************)
(* The registry in memory.                                                 *)
(***************************************************************************)
\* SystemTime, as serde writes it: the duration since UNIX_EPOCH
SystemTime(secs, nanos) == [secs_since_epoch |-> secs, nanos_since_epoch |-> nanos]

UNIX_EPOCH == SystemTime(0, 0)

TrackedRepo(path, last_fetch) == [path |-> path, last_fetch |-> last_fetch]

\* ApplicationData.tracked_repos of a store that does not exist
EmptyRegistry == <<>>

(***************************************************************************)
(* toml::to_string(&ApplicationData).                                      *)
(***************************************************************************)
RECURSIVE Digits(_)
Digits(n) ==
    IF n < 10 THEN <<DigitChars[n + 1]>>
    ELSE Digits(n \div 10) \o <<DigitChars[(n % 10) + 1]>>

\* the concatenation of a sequence of strings
RECURSIVE Concat(_)
Concat(ss) ==
    IF Len(ss) = 0 THEN <<>>
    ELSE IF Len(ss) = 1 THEN ss[1]
    ELSE LET h == Len(ss) \div 2
         IN  Concat(SubSeq(ss, 1, h)) \o Concat(SubSeq(ss, h + 1, Len(ss)))

\* a mutant of Escape: the characters are written as they are
Escape_raw(s) == s

\* a basic string: the quote and the backslash are escaped
Escape(s) ==
    Concat([i \in 1..Len(s) |->
              IF s[i] = QUOTE \/ s[i] = BACKSLASH THEN <<BACKSLASH, s[i]>> ELSE <<s[i]>>])

\* one [[tracked_repos]] table with its last_fetch sub-table
SerializeRepo(e) ==
    TABLE_ARRAY_HEADER \o <<NL>>
    \o PATH_KEY \o Escape(e.path) \o <<QUOTE, NL>>
    \o <<NL>>
    \o LAST_FETCH_HEADER \o <<NL>>
    \o SECS_KEY \o Digits(e.last_fetch.secs_since_epoch) \o <<NL>>
    \o NANOS_KEY \o Digits(e.last_fetch.nanos_since_epoch) \o <<NL>>

\* Path::to_str is Some: serde writes a path as a string, or fails
IsUtf8(path) == \A i \in 1..Len(path) : path[i] # INVALID_BYTE

\* Ok(text) or Err: the tables one after the other, an empty line before all
\* but the first
to_string(repos) ==
    IF \E i \in 1..Len(repos) : ~IsUtf8(repos[i].path)
    THEN [ok |-> FALSE, text |-> <<>>]
    ELSE IF repos = <<>> THEN [ok |-> TRUE, text |-> EMPTY_ARRAY \o <<NL>>]
    ELSE [ok |-> TRUE,
          text |-> Concat([i \in 1..Len(repos) |->
                             IF i = 1 THEN SerializeRepo(repos[i])
                             ELSE <<NL>> \o SerializeRepo(repos[i])])]

(***************************************************************************)
(* toml::from_slice::<ApplicationData>: a line parser for the documents    *)
(* to_string writes.  Anything else is an error, as is a missing field.    *)
(***************************************************************************)
\* a field not seen yet, and a field with its value
Missing == <<>>

Present(v) == <<v>>

HasPrefix(s, pre) == Len(pre) <= Len(s) /\ SubSeq(s, 1, Len(pre)) = pre

IsDigit(c) == \E d \in 1..10 : DigitChars[d] = c

DigitValue(c) == (CHOOSE d \in 1..10 : DigitChars[d] = c) - 1

IsNumber(s) == s # <<>> /\ \A i \in 1..Len(s) : IsDigit(s[i])

RECURSIVE NumberValue(_)
NumberValue(s) ==
    IF s = <<>> THEN 0
    ELSE 10 * NumberValue(SubSeq(s, 1, Len(s) - 1)) + DigitValue(s[Len(s)])

\* the text of a basic string up to its closing quote, which ends the line
RECURSIVE Unescape(_, _, _)
Unescape(s, i, acc) ==
    IF i > Len(s) THEN Missing
    ELSE IF s[i] = QUOTE THEN (IF i = Len(s) THEN Present(acc) ELSE Missing)
    ELSE IF s[i] = BACKSLASH
         THEN IF i < Len(s) /\ (s[i + 1] = QUOTE \/ s[i + 1] = BACKSLASH)
              THEN Unescape(s, i + 2, Append(acc, s[i + 1]))
              ELSE Missing
    ELSE Unescape(s, i + 1, Append(acc, s[i]))

IsPathLine(l) == HasPrefix(l, PATH_KEY) /\ Unescape(l, Len(PATH_KEY) + 1, <<>>) # Missing

IsSecsLine(l) == HasPrefix(l, SECS_KEY) /\ IsNumber(SubSeq(l, Len(SECS_KEY) + 1, Len(l)))

IsNanosLine(l) == HasPrefix(l, NANOS_KEY) /\ IsNumber(SubSeq(l, Len(NANOS_KEY) + 1, Len(l)))

\* the lines of one [[tracked_repos]] table after its header: the path, then
\* the last_fetch sub-table with its two fields in either order
IsTable(t) ==
    /\ Len(t) = 4
    /\ IsPathLine(t[1])
    /\ t[2] = LAST_FETCH_HEADER
    /\ \/ IsSecsLine(t[3]) /\ IsNanosLine(t[4])
       \/ IsNanosLine(t[3]) /\ IsSecsLine(t[4])

ParseTable(t) ==
    LET secs == IF IsSecsLine(t[3]) THEN t[3] ELSE t[4]
        nanos == IF IsNanosLine(t[3]) THEN t[3] ELSE t[4]
    IN  TrackedRepo(Unescape(t[1], Len(PATH_KEY) + 1, <<>>)[1],
                    SystemTime(NumberValue(SubSeq(secs, Len(SECS_KEY) + 1, Len(secs))),
                               NumberValue(SubSeq(nanos, Len(NANOS_KEY) + 1, Len(nanos)))))

\* Ok(data) or Err.  Empty lines are skipped; the document is either the one
\* line of an empty array or a sequence of complete tables.
from_slice(buf) ==
    LET lines == SelectSeq(SplitOn(buf, NL), LAMBDA l : l # <<>>)
        heads == {i \in 1..Len(lines) : lines[i] = TABLE_ARRAY_HEADER}
        n == Cardinality(heads)
        head(k) == IF k = n + 1 THEN Len(lines) + 1
                   ELSE CHOOSE i \in heads : Cardinality({j \in heads : j <= i}) = k
        table(k) == SubSeq(lines, head(k) + 1, head(k + 1) - 1)
    IN  IF lines = <<EMPTY_ARRAY>> THEN [ok |-> TRUE, data |-> <<>>]
        ELSE IF /\ n > 0
                /\ lines[1] = TABLE_ARRAY_HEADER
                /\ \A k \in 1..n : IsTable(table(k))
             THEN [ok |-> TRUE, data |-> [k \in 1..n |-> ParseTable(table(k))]]
        ELSE [ok |-> FALSE, data |-> <<>>]

(***************************************************************************)
(* The state: the store file, the clock, and the invocations of the tool.  *)
(***************************************************************************)
VARIABLES
    store,      \* the file at DATA_FILE_PATH: whether it exists, and its bytes
    now,        \* SystemTime::now()
    proc,       \* the invocations: position, command, arguments, locals, output
    saveBegun,  \* history: some invocation has opened the store for writing
    lastWriter  \* history: the invocation whose write_all ran last, 0 for none

vars == <<store, now, proc, saveBegun, lastWriter>>

Procs == {1, 2}

Commands == {"list", "add", "remove"}

\* Option<PathBuf>
NoPath == [some |-> FALSE, path |-> <<>>]

Some(p) == [some |-> TRUE, path |-> p]

ArgPaths == {P_r, P_l, P_r_git, P_w, P_q, P_u, P_n, P_x, P_rel_r}

Args == {NoPath} \cup {Some(p) : p \in ArgPaths}

\* std::env::current_dir() of an invocation
Cwds == {P_root, P_r}

Clocks == {SystemTime(15, 0)}

Absent == [exists |-> FALSE, bytes |-> <<>>]

File(bytes) == [exists |-> TRUE, bytes |-> bytes]

\* entries a store file may hold before the first invocation: one written by
\* command_add, and one written elsewhere with a later time of the last fetch
InitEntries ==
    { TrackedRepo(P_r, UNIX_EPOCH),
      TrackedRepo(P_l, SystemTime(23, 7)) }

RECURSIVE SeqsUpTo(_, _)
SeqsUpTo(S, n) ==
    IF n = 0 THEN {<<>>}
    ELSE LET shorter == SeqsUpTo(S, n - 1)
         IN  shorter \cup {Append(q, e) : q \in shorter, e \in S}

InitStores == {Absent} \cup {File(to_string(R).text) : R \in SeqsUpTo(InitEntries, MaxInitLen)}

Idle ==
    [pc |-> "idle", cmd |-> "none", arg |-> NoPath, cwd |-> P_root,
     data |-> EmptyRegistry, loaded |-> EmptyRegistry, early |-> FALSE,
     lines |-> <<>>, miss |-> FALSE, err |-> "none"]

Init ==
    /\ store \in InitStores
    /\ now \in Clocks
    /\ proc = [p \in Procs |-> Idle]
    /\ saveBegun = FALSE
    /\ lastWriter = 0

InitFresh ==
    /\ store = Absent
    /\ now \in Clocks
    /\ proc = [p \in Procs |-> Idle]
    /\ saveBegun = FALSE
    /\ lastWriter = 0

\* the registry a store file holds, empty when there is none to read
StoredRegistry ==
    IF store.exists /\ from_slice(store.bytes).ok
    THEN from_slice(store.bytes).data
    ELSE EmptyRegistry

Panic(self, reason) ==
    proc' = [proc EXCEPT ![self].pc = "panicked", ![self].err = reason]

(***************************************************************************)
(* main: an invocation starts with its command, argument and directory.    *)
(***************************************************************************)
Start(self, cmd, arg, cwd) ==
    /\ proc[self].pc = "idle"
    /\ cmd = "list" => arg = NoPath
    /\ cmd = "add" => Len(StoredRegistry) < MaxRepos
    /\ proc' = [proc EXCEPT ![self] =
                  [Idle EXCEPT !.pc = "load", !.cmd = cmd, !.arg = arg, !.cwd = cwd]]
    /\ UNCHANGED <<store, now, saveBegun, lastWriter>>

(***************************************************************************)
(* load_app_data                                                           *)
(***************************************************************************)
\* a mutant of load_app_data: the store file is created when it is missing
load_app_data_creating ==
    IF ~store.exists THEN [ok |-> TRUE, data |-> EmptyRegistry, file |-> File(<<>>)]
    ELSE [ok |-> from_slice(store.bytes).ok,
          data |-> from_slice(store.bytes).data,
          file |-> store]

load_app_data ==
    IF ~store.exists THEN [ok |-> TRUE, data |-> EmptyRegistry, file |-> store]
    ELSE [ok |-> from_slice(store.bytes).ok,
          data |-> from_slice(store.bytes).data,
          file |-> store]

Load(self) ==
    /\ proc[self].pc = "load"
    /\ LET r == load_app_data
       IN  /\ store' = r.file
           /\ IF r.ok
              THEN proc' = [proc EXCEPT ![self].pc = "run",
                                        ![self].data = r.data,
                                        ![self].loaded = r.data,
                                        ![self].early = ~saveBegun]
              ELSE Panic(self, "parse")
    /\ UNCHANGED <<now, saveBegun, lastWriter>>

(***************************************************************************)
(* command_list                                                            *)
(***************************************************************************)
Later(a, b) ==
    \/ a.secs_since_epoch > b.secs_since_epoch
    \/ /\ a.secs_since_epoch = b.secs_since_epoch
       /\ a.nanos_since_epoch > b.nanos_since_epoch

\* SystemTime::elapsed: Err when the time lies after the clock
elapsed(t) ==
    IF Later(t, now) THEN [ok |-> FALSE, secs |-> 0]
    ELSE [ok |-> TRUE,
          secs |-> IF now.nanos_since_epoch >= t.nanos_since_epoch
                   THEN now.secs_since_epoch - t.secs_since_epoch
                   ELSE now.secs_since_epoch - t.secs_since_epoch - 1]

\* one turn of the loop: elapsed().unwrap(), then the line is printed
ListEntry(self) ==
    /\ proc[self].pc = "run"
    /\ proc[self].cmd = "list"
    /\ Len(proc[self].lines) < Len(proc[self].data)
    /\ LET entry == proc[self].data[Len(proc[self].lines) + 1]
           e == elapsed(entry.last_fetch)
       IN  IF e.ok
           THEN proc' = [proc EXCEPT ![self].lines =
                           Append(@, [path |-> entry.path, time |-> e.secs])]
           ELSE Panic(self, "elapsed")
    /\ UNCHANGED <<store, now, saveBegun, lastWriter>>

ListEnd(self) ==
    /\ proc[self].pc = "run"
    /\ proc[self].cmd = "list"
    /\ Len(proc[self].lines) = Len(proc[self].data)
    /\ proc' = [proc EXCEPT ![self].pc = "done"]
    /\ UNCHANGED <<store, now, saveBegun, lastWriter>>

(***************************************************************************)
(* command_add, up to the call of write_app_data                           *)
(***************************************************************************)
Target(self) == IF proc[self].arg.some THEN proc[self].arg.path ELSE proc[self].cwd

\* repo.path(), without a trailing ".git"
StoredPath(repo) ==
    IF ends_with(repo.gitdir, DOT_GIT) THEN pop(repo.gitdir) ELSE repo.gitdir

push(repos, entry) == Append(repos, entry)

command_add(self) ==
    /\ proc[self].pc = "run"
    /\ proc[self].cmd = "add"
    /\ LET repo_result == Repository_open(proc[self].cwd, Target(self))
       IN  IF repo_result.ok
           THEN proc' = [proc EXCEPT
                    ![self].pc = "open",
                    ![self].data = push(@, TrackedRepo(StoredPath(repo_result.repo),
                                                       UNIX_EPOCH))]
           ELSE Panic(self, "repo_open")
    /\ UNCHANGED <<store, now, saveBegun, lastWriter>>

(***************************************************************************)
(* command_remove, up to the call of write_app_data                        *)
(***************************************************************************)
Matches(cwd, target, repos) ==
    {i \in 1..Len(repos) : is_same_file(cwd, target, repos[i].path)}

\* a mutant of find: the last match
find_last(cwd, target, repos) ==
    LET m == Matches(cwd, target, repos)
    IN  IF m = {} THEN 0 ELSE CHOOSE i \in m : \A j \in m : i >= j

\* Iterator::find: the index of the first match, 0 for None
find(cwd, target, repos) ==
    LET m == Matches(cwd, target, repos)
    IN  IF m = {} THEN 0 ELSE CHOOSE i \in m : \A j \in m : i <= j

\* Vec::remove(i), for the 1-based index i
remove(repos, i) == SubSeq(repos, 1, i - 1) \o SubSeq(repos, i + 1, Len(repos))

\* a mutant of command_remove: nothing is saved when no entry matches
command_remove_quiet(self) ==
    /\ proc[self].pc = "run"
    /\ proc[self].cmd = "remove"
    /\ LET i == find(proc[self].cwd, Target(self), proc[self].data)
       IN  IF i # 0
           THEN proc' = [proc EXCEPT ![self].pc = "open",
                                     ![self].data = remove(@, i)]
           ELSE proc' = [proc EXCEPT ![self].pc = "done",
                                     ![self].miss = TRUE]
    /\ UNCHANGED <<store, now, saveBegun, lastWriter>>

command_remove(self) ==
    /\ proc[self].pc = "run"
    /\ proc[self].cmd = "remove"
    /\ LET i == find(proc[self].cwd, Target(self), proc[self].data)
       IN  IF i # 0
           THEN proc' = [proc EXCEPT ![self].pc = "open",
                                     ![self].data = remove(@, i)]
           ELSE proc' = [proc EXCEPT ![self].pc = "open",
                                     ![self].miss = TRUE]
    /\ UNCHANGED <<store, now, saveBegun, lastWriter>>

(***************************************************************************)
(* write_app_data: the truncating open, then write_all at offset 0 of the  *)
(* file descriptor this invocation opened.                                 *)
(***************************************************************************)
OpenTruncate(self) ==
    /\ proc[self].pc = "open"
    /\ store' = File(<<>>)
    /\ proc' = [proc EXCEPT ![self].pc = "write"]
    /\ saveBegun' = TRUE
    /\ UNCHANGED <<now, lastWriter>>

\* the bytes of a file after s is written at its start
WriteAt0(bytes, s) == s \o SubSeq(bytes, Len(s) + 1, Len(bytes))

\* to_string(..).expect(..), then write_all
WriteAll(self) ==
    /\ proc[self].pc = "write"
    /\ LET s == to_string(proc[self].data)
       IN  IF s.ok
           THEN /\ store' = File(WriteAt0(store.bytes, s.text))
                /\ proc' = [proc EXCEPT ![self].pc = "done"]
                /\ lastWriter' = self
           ELSE /\ Panic(self, "serialize")
                /\ UNCHANGED <<store, lastWriter>>
    /\ UNCHANGED <<now, saveBegun>>

\* write_all returns Err (the disk is full): nothing is written
WriteFail(self) ==
    /\ proc[self].pc = "write"
    /\ Panic(self, "write")
    /\ UNCHANGED <<store, now, saveBegun, lastWriter>>

\* the process is gone; the tool may be invoked again
Exit(self) ==
    /\ proc[self].pc \in {"done", "panicked"}
    /\ proc' = [proc EXCEPT ![self] = Idle]
    /\ UNCHANGED <<store, now, saveBegun, lastWriter>>

(***************************************************************************)
(* Specifications.                                                         *)
(*   Spec       invocations one after the other, any initial store         *)
(*   SpecFresh  invocations one after the other, no store file at first    *)
(*   SpecConc   two invocations at once, each running one command          *)
(***************************************************************************)
\* the arguments and the directory of the two invocations that run at once
ConcArgs == {NoPath, Some(P_r), Some(P_w), Some(P_u), Some(P_x)}

ConcCwds == {P_root}

Step(self, args, cwds) ==
    \/ \E cmd \in Commands, arg \in args, cwd \in cwds : Start(self, cmd, arg, cwd)
    \/ Load(self)
    \/ ListEntry(self)
    \/ ListEnd(self)
    \/ command_add(self)
    \/ command_remove(self)
    \/ OpenTruncate(self)
    \/ WriteAll(self)
    \/ WriteFail(self)

Next == Step(1, Args, Cwds) \/ Exit(1)

Spec == Init /\ [][Next]_vars

SpecFresh == InitFresh /\ [][Next]_vars

NextConc == \E self \in Procs : Step(self, ConcArgs, ConcCwds)

SpecConc == Init /\ [][NextConc]_vars

(***************************************************************************)
(* Properties.                                                             *)
(***************************************************************************)
Mutating == {"add", "remove"}

Saved(p) == proc[p].pc = "done" /\ proc[p].cmd \in Mutating

\* two paths name the same object of the file system
SameLocation(cwd, a, b) ==
    LET x == Components(Absolute(cwd, a))
        y == Components(Absolute(cwd, b))
    IN  \E e \in FileTable, f \in FileTable : e[1] = x /\ f[1] = y /\ e[2] = f[2]

\* the entries of a registry at the location the invocation p names
EntriesAt(p, repos) ==
    {i \in 1..Len(repos) : SameLocation(proc[p].cwd, Target(p), repos[i].path)}

RemoveMatchByIdentity ==
    \A p \in Procs :
        (proc[p].pc = "done" /\ proc[p].cmd = "remove"
            /\ EntriesAt(p, proc[p].loaded) # {}) =>
            /\ ~proc[p].miss
            /\ \E i \in EntriesAt(p, proc[p].loaded) :
                   StoredRegistry = remove(proc[p].loaded, i)

RemoveMatchByIdentityWitness ==
    \E p \in Procs :
        /\ proc[p].pc = "done"
        /\ proc[p].cmd = "remove"
        /\ proc[p].arg = Some(P_l)
        /\ proc[p].loaded = <<TrackedRepo(P_r, UNIX_EPOCH)>>
        /\ store = File(to_string(<<>>).text)

\* C3: a remove whose target matches no tracked entry reports the miss, fails
\* for no reason of its own, and saves the registry as it was loaded; the
\* store file exists afterwards
RemoveMiss ==
    \A p \in Procs :
        (proc[p].cmd = "remove" /\ EntriesAt(p, proc[p].loaded) = {}) =>
            /\ proc[p].pc = "done" =>
                   /\ proc[p].miss
                   /\ store.exists
                   /\ from_slice(store.bytes).ok
                   /\ from_slice(store.bytes).data = proc[p].loaded
            /\ proc[p].pc = "panicked" => proc[p].err \in {"parse", "write", "serialize"}

RemoveMissWitness ==
    \E p \in Procs :
        /\ proc[p].pc = "done"
        /\ proc[p].cmd = "remove"
        /\ proc[p].miss
        /\ proc[p].arg = Some(P_x)
        /\ Len(proc[p].loaded) = 1
        /\ StoredRegistry = proc[p].loaded

\* C4: a finished add persists the loaded registry with one entry appended,
\* whose path is the working-directory root of the repository opened and whose
\* last_fetch is the epoch
AddAppendsWorkdirRoot ==
    \A p \in Procs :
        (proc[p].pc = "done" /\ proc[p].cmd = "add") =>
            LET opened == Repository_open(proc[p].cwd, Target(p))
            IN  /\ opened.ok
                /\ StoredRegistry =
                       Append(proc[p].loaded, TrackedRepo(opened.repo.workdir, UNIX_EPOCH))

\* a path is the working directory of one of the repositories
IsWorkdirRoot(path) == \E r \in RepoTable : PathEq(path, r.workdir)

\* C5: from an empty store on, every persisted path is the working-directory
\* root of a repository and does not end in a .git component
MetadataPathInvariant ==
    \A i \in 1..Len(StoredRegistry) :
        /\ IsWorkdirRoot(StoredRegistry[i].path)
        /\ ~ends_with(StoredRegistry[i].path, DOT_GIT)

\* C6: load_app_data without a store file gives the empty registry, does not
\* panic and creates no file, and a list leaves an absent store file absent
EmptyStart ==
    [][\A p \in Procs :
          /\ (proc[p].pc = "load" /\ proc'[p].pc # "load" /\ ~store.exists) =>
                 /\ ~store'.exists
                 /\ proc'[p].pc = "run"
                 /\ proc'[p].data = EmptyRegistry
          /\ (proc[p].cmd = "list" /\ proc'[p].cmd = "list" /\ ~store.exists) =>
                 ~store'.exists]_vars

EmptyStartWitness ==
    \E p \in Procs :
        /\ proc[p].pc = "done"
        /\ proc[p].cmd = "list"
        /\ proc[p].data = EmptyRegistry
        /\ ~store.exists

\* C7: a list does not stop in a panic over an entry whose last_fetch lies
\* after the clock: the duration is clamped or an error is reported
ListHandlesLaterTimestamp ==
    \A p \in Procs :
        proc[p].cmd = "list" =>
            ~(proc[p].pc = "panicked" /\ proc[p].err = "elapsed")

\* C8: at every point a store file that exists holds a complete registry
SaveIsAtomic == store.exists => from_slice(store.bytes).ok

\* both invocations loaded before either began to save, and both have saved
BothLoadedFirst ==
    \A p \in Procs : Saved(p) /\ proc[p].early

\* C9: when two mutating invocations have both loaded before either began to
\* save and both have finished, the store holds exactly the registry of the
\* one that wrote last
LastWriterWins ==
    BothLoadedFirst => store = File(to_string(proc[lastWriter].data).text)

\* C10: a remove with several matching entries deletes the first of them and
\* nothing else: the registry persisted is the loaded one without that entry
RemoveDeletesFirstMatchOnly ==
    \A p \in Procs :
        (proc[p].pc = "done" /\ proc[p].cmd = "remove"
            /\ EntriesAt(p, proc[p].loaded) # {}) =>
            LET m == EntriesAt(p, proc[p].loaded)
                first == CHOOSE i \in m : \A j \in m : i <= j
            IN  /\ StoredRegistry = remove(proc[p].loaded, first)
                /\ Len(StoredRegistry) = Len(proc[p].loaded) - 1

RemoveDeletesFirstMatchOnlyWitness ==
    \E p \in Procs :
        /\ proc[p].pc = "done"
        /\ proc[p].cmd = "remove"
        /\ proc[p].loaded = <<TrackedRepo(P_l, SystemTime(23, 7)), TrackedRepo(P_r, UNIX_EPOCH)>>
        /\ StoredRegistry = <<TrackedRepo(P_r, UNIX_EPOCH)>>

====
